---------------------------- MODULE Spec2Model ----------------------------
(***************************************************************************)
(* Screenlux product configurator: the pricing / variant engine            *)
(* (window.ScreenluxEngine) and the session state holder                   *)
(* (ProductConfigurator, product-configurator-v2.js).                      *)
(*                                                                         *)
(* Two revisions of the engine are modelled:                               *)
(*   - the rules-driven revision, src/assets/screenlux-engine.js           *)
(*     (stepped variant match, "Strategy A");                              *)
(*   - the fixed-rate revision, src/unnamed/part_000 lines 192-372         *)
(*     (SKU variant match, "Strategy B"); its definitions carry the        *)
(*     suffix Fixed / Sku.                                                 *)
(*                                                                         *)
(* Encoding of JavaScript values:                                          *)
(*   - numbers are integers; Missing stands for a numeric slot that holds  *)
(*     undefined / null / NaN (all of them falsy and not a number);        *)
(*   - option identifiers are strings; Null stands for null / undefined;   *)
(*   - text that the code parses or searches (input values, SKUs, service  *)
(*     titles) is a sequence of one-character strings.                     *)
(* Arithmetic is exact: w/1000 * h/1000 * rate is computed as a rational   *)
(* and rounded as Math.round does (half up).  The code computes in IEEE    *)
(* doubles, whose result differs from the exact one only when a term is    *)
(* exactly half-way between two integers (0.6 * 0.755 * 1500 evaluates to  *)
(* 679.4999999999999 and rounds to 679, not 680); doubles are not          *)
(* represented.                                                            *)
(***************************************************************************)
EXTENDS Integers, Sequences, FiniteSets, TLC

VARIABLES
    phase,             \* lifecycle of the component / which function is probed
    screens,           \* state.screens
    installationType,  \* state.installationType
    addons,            \* state.addons : accessory id -> quantity
    selectedBracketId, \* state.selectedBracketId (set by renderBracketCard)
    bracketId,         \* state.bracketId (read by generateCartPayload)
    now,               \* Date.now()
    data,              \* window.ScreenluxData
    lastOp,            \* the handler that ran last, with its arguments
    call,              \* arguments of the probed engine function
    ret                \* its result / the payload handed to the cart transport

vars == <<phase, screens, installationType, addons, selectedBracketId,
          bracketId, now, data, lastOp, call, ret>>

-----------------------------------------------------------------------------
(* JavaScript values and helpers *)

Missing == -999999999

Null == "null"

Falsy(n) == n = 0 \/ n = Missing

OrElse(n, d) == IF Falsy(n) THEN d ELSE n

Max(a, b) == IF a >= b THEN a ELSE b

Abs(a) == IF a < 0 THEN -a ELSE a

\* Math.round(p / q) for q > 0: nearest integer, halves towards +infinity
MathRound(p, q) == (2 * p + q) \div (2 * q)

\* Math.round(a * r / 1000000), computed in two halves so that no
\* intermediate product leaves the 32-bit range of the checker's integers
MathRoundMillionth(a, r) ==
    LET hi == (a \div 1000) * r
        rest == (hi % 1000) * 1000 + (a % 1000) * r
    IN  (hi \div 1000) + (rest + 500000) \div 1000000

\* Math.ceil(p / q) for q > 0
MathCeil(p, q) == -((-p) \div q)

Digits == {"0", "1", "2", "3", "4", "5", "6", "7", "8", "9"}

DigitVal(c) ==
    CASE c = "0" -> 0 [] c = "1" -> 1 [] c = "2" -> 2 [] c = "3" -> 3
      [] c = "4" -> 4 [] c = "5" -> 5 [] c = "6" -> 6 [] c = "7" -> 7
      [] c = "8" -> 8 [] c = "9" -> 9

\* number of leading digits of s from position i on
RECURSIVE DigitRun(_, _)
DigitRun(s, i) ==
    IF i <= Len(s) /\ s[i] \in Digits THEN 1 + DigitRun(s, i + 1) ELSE 0

\* value of the n digits of s starting at position i
RECURSIVE DigitsValue(_, _, _)
DigitsValue(s, i, n) ==
    IF n = 0 THEN 0
    ELSE DigitsValue(s, i, n - 1) * 10 + DigitVal(s[i + n - 1])

RECURSIVE SkipSpace(_, _)
SkipSpace(s, i) ==
    IF i <= Len(s) /\ s[i] = " " THEN SkipSpace(s, i + 1) ELSE i

\* parseInt(s): leading blanks, an optional sign, then decimal digits;
\* NaN (Missing) when no digit follows
ParseInt(s) ==
    LET i0 == SkipSpace(s, 1)
        signed == i0 <= Len(s) /\ s[i0] \in {"-", "+"}
        i1 == IF signed THEN i0 + 1 ELSE i0
        n == DigitRun(s, i1)
        v == DigitsValue(s, i1, n)
    IN  IF n = 0 THEN Missing
        ELSE IF signed /\ s[i0] = "-" THEN -v ELSE v

-----------------------------------------------------------------------------
(* Engine: validation *)

minWidth == 600
maxWidth == 6000
minHeight == 600
maxHeight == 5000

\* a validateDimensions whose bounds are exclusive
validateDimensionsExclusive(width, height) ==
    IF Falsy(width) \/ Falsy(height)
      THEN [valid |-> FALSE, error |-> "Dimensions required"]
    ELSE IF width <= minWidth
      THEN [valid |-> FALSE, error |-> "Min width is 600mm"]
    ELSE IF width >= maxWidth
      THEN [valid |-> FALSE, error |-> "Max width is 6000mm"]
    ELSE IF height <= minHeight
      THEN [valid |-> FALSE, error |-> "Min height is 600mm"]
    ELSE IF height >= maxHeight
      THEN [valid |-> FALSE, error |-> "Max height is 5000mm"]
    ELSE [valid |-> TRUE, error |-> Null]

\* a validateDimensions that checks the height range before the width range
validateDimensionsHeightFirst(width, height) ==
    IF Falsy(width) \/ Falsy(height)
      THEN [valid |-> FALSE, error |-> "Dimensions required"]
    ELSE IF height < minHeight
      THEN [valid |-> FALSE, error |-> "Min height is 600mm"]
    ELSE IF height > maxHeight
      THEN [valid |-> FALSE, error |-> "Max height is 5000mm"]
    ELSE IF width < minWidth
      THEN [valid |-> FALSE, error |-> "Min width is 600mm"]
    ELSE IF width > maxWidth
      THEN [valid |-> FALSE, error |-> "Max width is 6000mm"]
    ELSE [valid |-> TRUE, error |-> Null]

validateDimensions(width, height) ==
    IF Falsy(width) \/ Falsy(height)
      THEN [valid |-> FALSE, error |-> "Dimensions required"]
    ELSE IF width < minWidth
      THEN [valid |-> FALSE, error |-> "Min width is 600mm"]
    ELSE IF width > maxWidth
      THEN [valid |-> FALSE, error |-> "Max width is 6000mm"]
    ELSE IF height < minHeight
      THEN [valid |-> FALSE, error |-> "Min height is 600mm"]
    ELSE IF height > maxHeight
      THEN [valid |-> FALSE, error |-> "Max height is 5000mm"]
    ELSE [valid |-> TRUE, error |-> Null]

-----------------------------------------------------------------------------
(* Engine: cost calculation *)

\* mm^2 in one square metre, mm in one metre
SqmUnit == 1000000
MetreUnit == 1000

\* a rules-driven price that takes a configured base price of 0 as it is
RulesPriceConfiguredBase(config, rules) ==
    LET area == config.width * config.height
        PRICE_PER_SQM == IF rules.price_per_sqm # Missing
                           THEN rules.price_per_sqm ELSE 5000
        MIN_BILLABLE == OrElse(rules.min_billable_sqm, 0)
        BASE_INCLUDES == OrElse(rules.base_includes_sqm, 0)
        BASE_PRICE == IF rules.base_price # Missing THEN rules.base_price ELSE 50000
        billableSqm == Max(area, MIN_BILLABLE * SqmUnit)
        chargeableSqm == Max(0, billableSqm - BASE_INCLUDES * SqmUnit)
        areaCost == MathRoundMillionth(chargeableSqm, PRICE_PER_SQM)
        cassette == IF config.cassetteSize = "large"
                      THEN OrElse(rules.surcharge_cassette, 5000) ELSE 0
        motor == IF config.motor = "solar"
                   THEN OrElse(rules.surcharge_solar, 10000) ELSE 0
    IN  BASE_PRICE + areaCost + cassette + motor

\* rules-driven revision (src/assets/screenlux-engine.js), the steps after
\* the validation check.  The sqm-valued rules are whole square metres.
RulesPrice(config, rules) ==
    LET area == config.width * config.height          \* sqm, in mm^2
        PRICE_PER_SQM == IF rules.price_per_sqm # Missing
                           THEN rules.price_per_sqm ELSE 5000
        MIN_BILLABLE == OrElse(rules.min_billable_sqm, 0)
        BASE_INCLUDES == OrElse(rules.base_includes_sqm, 0)
        BASE_PRICE == OrElse(rules.base_price, 50000)
        billableSqm == Max(area, MIN_BILLABLE * SqmUnit)
        chargeableSqm == Max(0, billableSqm - BASE_INCLUDES * SqmUnit)
        areaCost == MathRoundMillionth(chargeableSqm, PRICE_PER_SQM)
        cassette == IF config.cassetteSize = "large"
                      THEN OrElse(rules.surcharge_cassette, 5000) ELSE 0
        motor == IF config.motor = "solar"
                   THEN OrElse(rules.surcharge_solar, 10000) ELSE 0
    IN  BASE_PRICE + areaCost + cassette + motor

\* a calculateScreenPrice whose step 0 checks presence only, not the range
calculateScreenPricePresenceOnly(config, rules) ==
    IF Falsy(config.width) \/ Falsy(config.height) THEN 0
    ELSE RulesPrice(config, rules)

calculateScreenPrice(config, rules) ==
    IF ~validateDimensions(config.width, config.height).valid THEN 0
    ELSE RulesPrice(config, rules)

\* a fixed-rate price that subtracts the height part of the cassette term
FixedPriceHeightCredit(config) ==
    LET area == config.width * config.height
        fabricPricePerSqm == IF config.fabricType = "blackout" THEN 1500 ELSE 1150
        large == config.cassetteSize = "large"
        cassetteWidthPrice == IF large THEN 2500 ELSE 1600
        cassetteHeightPrice == IF large THEN 900 ELSE 700
    IN  9500
        + MathRoundMillionth(area, fabricPricePerSqm)
        + MathRound(config.width * cassetteWidthPrice
                      - config.height * cassetteHeightPrice, MetreUnit)
        + (IF config.motor = "solar" THEN 3500 ELSE 0)

\* a fixed-rate price whose height rate does not step up for the large cassette
FixedPriceLargeWidthOnly(config) ==
    LET area == config.width * config.height
        fabricPricePerSqm == IF config.fabricType = "blackout" THEN 1500 ELSE 1150
        large == config.cassetteSize = "large"
        cassetteWidthPrice == IF large THEN 2500 ELSE 1600
        cassetteHeightPrice == 700
    IN  9500
        + MathRoundMillionth(area, fabricPricePerSqm)
        + MathRound(config.width * cassetteWidthPrice
                      + config.height * cassetteHeightPrice, MetreUnit)
        + (IF config.motor = "solar" THEN 3500 ELSE 0)

\* a fixed-rate price that rounds once, at the end
FixedPriceRoundedOnce(config) ==
    LET area == config.width * config.height
        fabricPricePerSqm == IF config.fabricType = "blackout" THEN 1500 ELSE 1150
        large == config.cassetteSize = "large"
        cassetteWidthPrice == IF large THEN 2500 ELSE 1600
        cassetteHeightPrice == IF large THEN 900 ELSE 700
        \* fabric and cassette terms in thousandths of a cent
        fabric == (area \div 1000) * fabricPricePerSqm
                    + ((area % 1000) * fabricPricePerSqm) \div 1000
        cassette == config.width * cassetteWidthPrice
                      + config.height * cassetteHeightPrice
    IN  9500
        + MathRound(fabric + cassette, MetreUnit)
        + (IF config.motor = "solar" THEN 3500 ELSE 0)

\* fixed-rate revision (src/unnamed/part_000), the steps after the check
FixedPrice(config) ==
    LET area == config.width * config.height
        fabricPricePerSqm == IF config.fabricType = "blackout" THEN 1500 ELSE 1150
        large == config.cassetteSize = "large"
        cassetteWidthPrice == IF large THEN 2500 ELSE 1600
        cassetteHeightPrice == IF large THEN 900 ELSE 700
    IN  9500
        + MathRoundMillionth(area, fabricPricePerSqm)
        + MathRound(config.width * cassetteWidthPrice
                      + config.height * cassetteHeightPrice, MetreUnit)
        + (IF config.motor = "solar" THEN 3500 ELSE 0)

calculateScreenPriceFixed(config, rules) ==
    IF ~validateDimensions(config.width, config.height).valid THEN 0
    ELSE FixedPrice(config)

-----------------------------------------------------------------------------
(* Engine: variant resolution *)

\* what a failed lookup returns (null)
NoVariant == [id |-> Missing, price |-> Missing, compare_at_price |-> Missing,
              sku |-> <<>>]

\* Array.prototype.find on positions: the first index whose element passes
FirstIndex(S) == CHOOSE i \in S : \A j \in S : i <= j

STEP == 5000
MIN_PRICE == 50000
MAX_PRICE == 300000

\* a target rounded to the nearest step instead of up
SnapTargetNearest(rawPrice) ==
    LET stepped == MathRound(rawPrice, STEP) * STEP
        low == IF stepped < MIN_PRICE THEN MIN_PRICE ELSE stepped
    IN  IF low > MAX_PRICE THEN MAX_PRICE ELSE low

\* a target that is stepped but not clamped
SnapTargetNoClamp(rawPrice) == MathCeil(rawPrice, STEP) * STEP

SnapTarget(rawPrice) ==
    LET stepped == MathCeil(rawPrice, STEP) * STEP
        low == IF stepped < MIN_PRICE THEN MIN_PRICE ELSE stepped
    IN  IF low > MAX_PRICE THEN MAX_PRICE ELSE low

\* Strategy A, src/assets/screenlux-engine.js
matchVariant(rawPrice, variants) ==
    LET target == SnapTarget(rawPrice)
        hits == {i \in DOMAIN variants : variants[i].price = target}
    IN  IF hits = {} THEN NoVariant ELSE variants[FirstIndex(hits)]

\* sku.replace(',', '.'): the first comma only
ReplaceComma(s) ==
    LET commas == {i \in DOMAIN s : s[i] = ","}
    IN  IF commas = {} THEN s
        ELSE [i \in DOMAIN s |-> IF i = FirstIndex(commas) THEN "." ELSE s[i]]

\* thousandths in one unit; parseFloat's result is held in thousandths
Milli == 1000

Pow10(n) == CASE n = 0 -> 1 [] n = 1 -> 10 [] n = 2 -> 100 [] OTHER -> 1000

\* parseFloat(s) in thousandths: leading blanks, optional sign, digits, an
\* optional '.' and digits; whatever follows is ignored; NaN (Missing) when
\* there is no digit.  Fraction digits past the third are dropped.
ParseFloat(s) ==
    LET i0 == SkipSpace(s, 1)
        signed == i0 <= Len(s) /\ s[i0] \in {"-", "+"}
        i1 == IF signed THEN i0 + 1 ELSE i0
        n == DigitRun(s, i1)
        dot == i1 + n <= Len(s) /\ s[i1 + n] = "."
        m == IF dot THEN DigitRun(s, i1 + n + 1) ELSE 0
        k == IF m > 3 THEN 3 ELSE m
        whole == DigitsValue(s, i1, n)
        frac == DigitsValue(s, i1 + n + 1, k) * (Milli \div Pow10(k))
        v == whole * Milli + frac
    IN  IF n = 0 /\ m = 0 THEN Missing
        ELSE IF signed /\ s[i0] = "-" THEN -v ELSE v

SkuValue(v) == ParseFloat(ReplaceComma(v.sku))

\* a reduce that lets the later of two equally near variants win
RECURSIVE NearestFromLaterWins(_, _, _, _)
NearestFromLaterWins(valid, i, prev, targetCost) ==
    IF i > Len(valid) THEN prev
    ELSE LET curr == valid[i]
             prevDiff == Abs(SkuValue(prev) - targetCost)
             currDiff == Abs(SkuValue(curr) - targetCost)
         IN  NearestFromLaterWins(valid, i + 1,
                                  IF currDiff <= prevDiff THEN curr ELSE prev,
                                  targetCost)

\* validVariants.reduce((prev, curr) => currDiff < prevDiff ? curr : prev)
RECURSIVE NearestFrom(_, _, _, _)
NearestFrom(valid, i, prev, targetCost) ==
    IF i > Len(valid) THEN prev
    ELSE LET curr == valid[i]
             prevDiff == Abs(SkuValue(prev) - targetCost)
             currDiff == Abs(SkuValue(curr) - targetCost)
         IN  NearestFrom(valid, i + 1,
                         IF currDiff < prevDiff THEN curr ELSE prev, targetCost)

SkuParses(v) == v.sku # <<>> /\ SkuValue(v) # Missing

\* a SKU match that gives up when no SKU parses
matchVariantSkuStrict(rawPrice, variants) ==
    LET targetCost == rawPrice * (Milli \div 100)
        exact == {i \in DOMAIN variants :
                    variants[i].sku # <<>> /\ SkuValue(variants[i]) = targetCost}
        validVariants == SelectSeq(variants, SkuParses)
    IN  IF exact # {} THEN variants[FirstIndex(exact)]
        ELSE IF Len(validVariants) > 0
          THEN NearestFrom(validVariants, 2, validVariants[1], targetCost)
        ELSE NoVariant

\* Strategy B, src/unnamed/part_000.  targetCost = rawPrice / 100, held in
\* thousandths like the parsed SKUs.
matchVariantSku(rawPrice, variants) ==
    LET targetCost == rawPrice * (Milli \div 100)
        exact == {i \in DOMAIN variants :
                    variants[i].sku # <<>> /\ SkuValue(variants[i]) = targetCost}
        validVariants == SelectSeq(variants, SkuParses)
    IN  IF exact # {} THEN variants[FirstIndex(exact)]
        ELSE IF Len(validVariants) > 0
          THEN NearestFrom(validVariants, 2, validVariants[1], targetCost)
        ELSE IF Len(variants) > 0 THEN variants[1]
        ELSE NoVariant

-----------------------------------------------------------------------------
(* Engine: cart payload *)

JsNumber(n) == [t |-> "number", v |-> n]
JsString(x) == [t |-> "string", v |-> x]
JsNull == [t |-> "null", v |-> Null]

\* String.prototype.includes on character sequences
Includes(title, target) ==
    \E k \in 0..(Len(title) - Len(target)) :
        \A j \in 1..Len(target) : title[k + j] = target[j]

Wired == <<"W", "i", "r", "e", "d">>
Solar == <<"S", "o", "l", "a", "r">>

\* a findTitle that hands the identifier through
findTitleRaw(list, id) == IF id = Null THEN JsNull ELSE JsString(id)

\* findTitle(list, id): the title of the first entry with that id, else the
\* id itself (null when nothing is selected)
findTitle(list, id) ==
    LET hits == {i \in DOMAIN list : list[i].id = id}
    IN  IF hits # {} THEN JsString(list[FirstIndex(hits)].title)
        ELSE IF id = Null THEN JsNull ELSE JsString(id)

\* `€${(rawPrice / 100).toFixed(2)}`
FormatPrice(rawPrice) ==
    JsString(<<"EUR", rawPrice \div 100, ".", (rawPrice % 100) \div 10, rawPrice % 10>>)

RawPrice(rev, screen, d) ==
    IF rev = "fixed" THEN calculateScreenPriceFixed(screen, d.config)
    ELSE calculateScreenPrice(screen, d.config)

Resolve(rev, rawPrice, d) ==
    IF rev = "fixed" THEN matchVariantSku(rawPrice, d.screens)
    ELSE matchVariant(rawPrice, d.screens)

ScreenItem(rev, screen, index, d) ==
    LET rawPrice == RawPrice(rev, screen, d)
        variant == Resolve(rev, rawPrice, d)
    IN  [id |-> variant.id,
         quantity |-> 1,
         properties |->
           [k \in {"_Screen ID", "Reference", "Dimensions", "Frame Color",
                   "Fabric Color", "Fabric Transparency", "Cassette Size",
                   "Motor", "Calculated Price"} |->
              CASE k = "_Screen ID" -> JsNumber(index)
                [] k = "Reference" -> JsString(<<"Screen ", index>>)
                [] k = "Dimensions" ->
                     JsString(<<screen.width, "mm x ", screen.height, "mm">>)
                [] k = "Frame Color" -> findTitle(d.frameColors, screen.frameColor)
                [] k = "Fabric Color" -> findTitle(d.fabricColors, screen.fabricColor)
                [] k = "Fabric Transparency" -> findTitle(d.fabrics, screen.fabricType)
                [] k = "Cassette Size" -> findTitle(d.cassetteSizes, screen.cassetteSize)
                [] k = "Motor" -> findTitle(d.motorOptions, screen.motor)
                [] k = "Calculated Price" -> FormatPrice(rawPrice)]]

\* a loop that gives up at the first screen whose variant does not resolve
RECURSIVE ScreenItemsStopAtMiss(_, _, _, _)
ScreenItemsStopAtMiss(rev, state, d, index) ==
    IF index > Len(state.screens) THEN <<>>
    ELSE LET screen == state.screens[index]
             variant == Resolve(rev, RawPrice(rev, screen, d), d)
         IN  IF variant = NoVariant THEN <<>>
             ELSE <<ScreenItem(rev, screen, index, d)>>
                  \o ScreenItemsStopAtMiss(rev, state, d, index + 1)

\* state.screens.forEach: a screen whose variant does not resolve is skipped
RECURSIVE ScreenItems(_, _, _, _)
ScreenItems(rev, state, d, index) ==
    IF index > Len(state.screens) THEN <<>>
    ELSE LET screen == state.screens[index]
             variant == Resolve(rev, RawPrice(rev, screen, d), d)
         IN  (IF variant = NoVariant THEN <<>>
              ELSE <<ScreenItem(rev, screen, index, d)>>)
             \o ScreenItems(rev, state, d, index + 1)

\* s.solar of a screen object: undefined (falsy) when it has no such field
SolarFlag(s) == IF "solar" \in DOMAIN s THEN s.solar ELSE FALSE

\* rules-driven revision: screens.some((s) => !s.solar);
\* fixed-rate revision:   screens.some((s) => s.motor !== 'solar')
hasWired(rev, state) ==
    IF rev = "fixed"
      THEN \E i \in DOMAIN state.screens : state.screens[i].motor # "solar"
      ELSE \E i \in DOMAIN state.screens : ~SolarFlag(state.screens[i])

targetTitle(rev, state) == IF hasWired(rev, state) THEN Wired ELSE Solar

InstallationItems(rev, state, d) ==
    IF state.installationType = "professional"
      THEN LET hits == {i \in DOMAIN d.services :
                          Includes(d.services[i].title, targetTitle(rev, state))}
           IN  IF hits # {}
                 THEN <<[id |-> d.services[FirstIndex(hits)].id, quantity |-> 1]>>
                 ELSE <<>>
      ELSE <<>>

BracketItems(state) ==
    IF state.installationType = "diy" /\ ~Falsy(state.bracketId)
      THEN <<[id |-> state.bracketId, quantity |-> Len(state.screens)]>>
      ELSE <<>>

\* an accessory loop that also emits entries of quantity 0
RECURSIVE AddonItemsFromZero(_, _)
AddonItemsFromZero(entries, i) ==
    IF i > Len(entries) THEN <<>>
    ELSE (IF entries[i].qty >= 0
            THEN <<[id |-> ParseInt(entries[i].key), quantity |-> entries[i].qty]>>
            ELSE <<>>)
         \o AddonItemsFromZero(entries, i + 1)

\* an accessory loop that adds every accessory once, whatever its quantity
RECURSIVE AddonItemsUnitQuantity(_, _)
AddonItemsUnitQuantity(entries, i) ==
    IF i > Len(entries) THEN <<>>
    ELSE (IF entries[i].qty > 0
            THEN <<[id |-> ParseInt(entries[i].key), quantity |-> 1]>>
            ELSE <<>>)
         \o AddonItemsUnitQuantity(entries, i + 1)

\* Object.entries(state.addons).forEach, entries in insertion order; the key
\* is parsed back to a number
RECURSIVE AddonItems(_, _)
AddonItems(entries, i) ==
    IF i > Len(entries) THEN <<>>
    ELSE (IF entries[i].qty > 0
            THEN <<[id |-> ParseInt(entries[i].key), quantity |-> entries[i].qty]>>
            ELSE <<>>)
         \o AddonItems(entries, i + 1)

\* a payload that puts the accessories before the installation items
PayloadAddonsFirst(rev, state, d) ==
    [items |-> ScreenItems(rev, state, d, 1)
               \o AddonItems(state.addons, 1)
               \o InstallationItems(rev, state, d)
               \o BracketItems(state)]

Payload(rev, state, d) ==
    [items |-> ScreenItems(rev, state, d, 1)
               \o InstallationItems(rev, state, d)
               \o BracketItems(state)
               \o AddonItems(state.addons, 1)]

\* src/assets/screenlux-engine.js
generateCartPayload(state, d) == Payload("rules", state, d)

\* src/unnamed/part_000, fixed-rate revision
generateCartPayloadFixed(state, d) == Payload("fixed", state, d)

-----------------------------------------------------------------------------
(* window.ScreenluxData: the catalogs the checks run against *)

\* data.config with every setting left unset: the engine's defaults apply
DefaultRules ==
    [price_per_sqm |-> Missing, min_billable_sqm |-> Missing,
     base_includes_sqm |-> Missing, base_price |-> Missing,
     surcharge_cassette |-> Missing, surcharge_solar |-> Missing]

CustomRules ==
    [price_per_sqm |-> 4000, min_billable_sqm |-> 2, base_includes_sqm |-> 1,
     base_price |-> 60000, surcharge_cassette |-> 7500, surcharge_solar |-> 12000]

FreeAreaRules ==
    [price_per_sqm |-> 0, min_billable_sqm |-> 0, base_includes_sqm |-> 0,
     base_price |-> 0, surcharge_cassette |-> 0, surcharge_solar |-> 0]

RuleSets == {DefaultRules, CustomRules, FreeAreaRules}

Variant(id, price, sku) ==
    [id |-> id, price |-> price, compare_at_price |-> Missing, sku |-> sku]

\* one variant per 50 EUR step from 500 EUR to 3000 EUR, without SKUs
FullLadder == [i \in 1..51 |-> Variant(1000 + i, 45000 + 5000 * i, <<>>)]

\* a price list with gaps: 500, 600 and 700 EUR only
SparseLadder ==
    <<Variant(1001, 50000, <<>>), Variant(1003, 60000, <<>>),
      Variant(1005, 70000, <<>>)>>

\* a price list whose variants carry their price as SKU
SkuLadder ==
    <<Variant(2001, 15000, <<"1", "5", "0", ",", "0", "0">>),
      Variant(2002, 20000, <<"2", "0", "0", ",", "0", "0">>),
      Variant(2003, 25000, <<"2", "5", "0", ",", "0", "0">>)>>

WiredService == [id |-> 3001, price |-> 235000,
                 title |-> <<"I", "n", "s", "t", "a", "l", "l", " ">> \o Wired]
SolarService == [id |-> 3002, price |-> 115000,
                 title |-> <<"I", "n", "s", "t", "a", "l", "l", " ">> \o Solar]

ServiceLists == {<<WiredService, SolarService>>, <<SolarService>>, <<>>}

\* accessory ids stand for shop variant ids, which are too large to be array
\* indices: Object.entries lists such keys in insertion order
RemoteAddon == [id |-> <<"7", "1">>, title |-> "Remote", price |-> 4900]
SensorAddon == [id |-> <<"7", "2">>, title |-> "Wind sensor", price |-> 8900]

Catalog(variants, services, rules, addonList) ==
    [config |-> rules,
     screens |-> variants,
     services |-> services,
     addons |-> addonList,
     brackets |-> <<[id |-> 4001, title |-> "Wall bracket", price |-> 1500]>>,
     frameColors |-> <<[id |-> "anthracite", title |-> "Anthracite"]>>,
     fabricColors |-> <<[id |-> "grey", title |-> "Grey"]>>,
     fabrics |-> <<[id |-> "blackout", title |-> "Blackout"],
                   [id |-> "semi", title |-> "Semi-transparent"]>>,
     cassetteSizes |-> <<[id |-> "standard", title |-> "Standard"],
                         [id |-> "large", title |-> "Large"]>>,
     motorOptions |-> <<[id |-> "wired", title |-> "Wired motor"],
                        [id |-> "solar", title |-> "Solar motor"]>>]

-----------------------------------------------------------------------------
(* ProductConfigurator (product-configurator-v2.js) *)

MaxScreens == 2
MaxClock == 1
MaxQty == 2

NoErrors == [dimension |-> Null]

NoOp == [op |-> "none", index |-> 0]

NoCall == [fn |-> "none"]

NoRet == [fn |-> "none"]

NoAddons == <<>>

\* the object handleAddScreen pushes
NewScreen(newId) ==
    [id |-> newId, width |-> 1500, height |-> 1000, frameColor |-> Null,
     fabricColor |-> Null, fabricType |-> Null, cassetteSize |-> Null,
     motor |-> Null, expanded |-> TRUE, valid |-> TRUE, errors |-> NoErrors]

\* the state object handed to the engine
State ==
    [screens |-> screens, installationType |-> installationType,
     addons |-> addons, bracketId |-> bracketId]

UiCatalogs ==
    {Catalog(FullLadder, <<WiredService, SolarService>>, DefaultRules,
             <<RemoteAddon>>)}

\* constructor()
Init ==
    /\ phase = "constructed"
    /\ screens = <<>>
    /\ installationType = "diy"
    /\ addons = NoAddons
    /\ selectedBracketId = Missing
    /\ bracketId = Missing
    /\ now = 0
    /\ data \in UiCatalogs
    /\ lastOp = NoOp
    /\ call = NoCall
    /\ ret = NoRet

\* time passes between two handlers
Tick ==
    /\ now < MaxClock
    /\ now' = now + 1
    /\ UNCHANGED <<phase, screens, installationType, addons, selectedBracketId,
                   bracketId, data, lastOp, call, ret>>

\* state.screens after handleAddScreen at time t: push, then collapse every
\* screen whose id differs from the new one
handleAddScreen(list, t) ==
    LET pushed == Append(list, NewScreen(t))
    IN  [i \in DOMAIN pushed |->
           IF pushed[i].id # t THEN [pushed[i] EXCEPT !.expanded = FALSE]
           ELSE pushed[i]]

\* connectedCallback() -> init(): the first screen
InitComponent ==
    /\ phase = "constructed"
    /\ phase' = "ready"
    /\ screens' = handleAddScreen(screens, now)
    /\ lastOp' = [op |-> "init", index |-> 0]
    /\ UNCHANGED <<installationType, addons, selectedBracketId, bracketId, now,
                   data, call, ret>>

HandleAddScreen ==
    /\ phase = "ready"
    /\ Len(screens) < MaxScreens
    /\ screens' = handleAddScreen(screens, now)
    /\ lastOp' = [op |-> "handleAddScreen", index |-> 0]
    /\ UNCHANGED <<phase, installationType, addons, selectedBracketId, bracketId,
                   now, data, call, ret>>

InsertAt(list, pos, e) ==
    [i \in 1..(Len(list) + 1) |->
       IF i < pos THEN list[i] ELSE IF i = pos THEN e ELSE list[i - 1]]

RemoveAt(list, pos) ==
    [i \in 1..(Len(list) - 1) |-> IF i < pos THEN list[i] ELSE list[i + 1]]

\* a duplicate that goes to the end of the list
handleDuplicateScreenAtEnd(list, index, t) ==
    LET newScreen == [list[index] EXCEPT !.id = t, !.expanded = TRUE]
        collapsed == [i \in DOMAIN list |-> [list[i] EXCEPT !.expanded = FALSE]]
    IN  Append(collapsed, newScreen)

\* state.screens after handleDuplicateScreen(index) at time t; index counts
\* from 1 here.  JSON.parse(JSON.stringify(source)) yields a fresh object with
\* the same numbers, strings, booleans and nulls, errors included.
handleDuplicateScreen(list, index, t) ==
    LET newScreen == [list[index] EXCEPT !.id = t, !.expanded = TRUE]
        collapsed == [i \in DOMAIN list |-> [list[i] EXCEPT !.expanded = FALSE]]
    IN  InsertAt(collapsed, index + 1, newScreen)

HandleDuplicateScreen ==
    /\ phase = "ready"
    /\ Len(screens) < MaxScreens
    /\ \E index \in DOMAIN screens :
         /\ screens' = handleDuplicateScreen(screens, index, now)
         /\ lastOp' = [op |-> "handleDuplicateScreen", index |-> index]
    /\ UNCHANGED <<phase, installationType, addons, selectedBracketId, bracketId,
                   now, data, call, ret>>

\* what the shopper can type into the width and height inputs
DimensionInputs ==
    {<<"width", <<>>>>, <<"width", <<"1", "5", "0", "0">>>>,
     <<"height", <<"5", "0", "0", "1">>>>, <<"height", <<"1", "0", "0", "0">>>>}

\* the option radios the shopper can pick
OptionInputs == {<<"motor", "solar">>, <<"motor", "wired">>}

\* an updateScreen that stores the field without re-running the validation
updateScreenKeepFlag(list, index, field, value) ==
    LET converted == IF field \in {"width", "height"}
                       THEN OrElse(ParseInt(value), 0) ELSE value
    IN  [list EXCEPT ![index] = [list[index] EXCEPT ![field] = converted]]

\* state.screens after updateScreen(index, field, value)
updateScreen(list, index, field, value) ==
    LET converted == IF field \in {"width", "height"}
                       THEN OrElse(ParseInt(value), 0) ELSE value
        edited == [list[index] EXCEPT ![field] = converted]
        v == validateDimensions(edited.width, edited.height)
    IN  [list EXCEPT ![index] =
           [edited EXCEPT !.valid = v.valid,
                          !.errors = IF v.valid THEN NoErrors
                                     ELSE [dimension |-> v.error]]]

UpdateScreen ==
    /\ phase = "ready"
    /\ \E index \in DOMAIN screens :
         /\ \/ \E in \in DimensionInputs :
                 screens' = updateScreen(screens, index, in[1], in[2])
            \/ \E in \in OptionInputs :
                 screens' = updateScreen(screens, index, in[1], in[2])
         /\ lastOp' = [op |-> "updateScreen", index |-> index]
    /\ UNCHANGED <<phase, installationType, addons, selectedBracketId, bracketId,
                   now, data, call, ret>>

\* a removeScreen without the one-screen floor
removeScreenNoFloor(list, index) ==
    LET spliced == RemoveAt(list, index)
        newFocusIndex == IF index - 1 < 1 THEN 1 ELSE index - 1
    IN  [i \in DOMAIN spliced |->
           [spliced[i] EXCEPT !.expanded = (i = newFocusIndex)]]

\* state.screens after removeScreen(index)
removeScreen(list, index) ==
    IF Len(list) <= 1 THEN list
    ELSE LET spliced == RemoveAt(list, index)
             newFocusIndex == IF index - 1 < 1 THEN 1 ELSE index - 1
         IN  [i \in DOMAIN spliced |->
                [spliced[i] EXCEPT !.expanded = (i = newFocusIndex)]]

RemoveScreen ==
    /\ phase = "ready"
    /\ \E index \in DOMAIN screens :
         /\ screens' = removeScreen(screens, index)
         /\ lastOp' = [op |-> "removeScreen", index |-> index]
    /\ UNCHANGED <<phase, installationType, addons, selectedBracketId, bracketId,
                   now, data, call, ret>>

toggleScreenAccordion(list, index) ==
    [i \in DOMAIN list |->
       [list[i] EXCEPT !.expanded = IF i = index THEN ~list[i].expanded ELSE FALSE]]

ToggleScreenAccordion ==
    /\ phase = "ready"
    /\ \E index \in DOMAIN screens :
         /\ screens' = toggleScreenAccordion(screens, index)
         /\ lastOp' = [op |-> "toggleScreenAccordion", index |-> index]
    /\ UNCHANGED <<phase, installationType, addons, selectedBracketId, bracketId,
                   now, data, call, ret>>

SetInstallationType ==
    /\ phase = "ready"
    /\ \E type \in {"diy", "professional"} : installationType' = type
    /\ lastOp' = [op |-> "setInstallationType", index |-> 0]
    /\ UNCHANGED <<phase, screens, addons, selectedBracketId, bracketId, now,
                   data, call, ret>>

handleGlobalSolar(list) == [i \in DOMAIN list |-> [list[i] EXCEPT !.motor = "solar"]]

\* the "Switch to Solar" button is rendered while some screen is not solar
HandleGlobalSolar ==
    /\ phase = "ready"
    /\ \E i \in DOMAIN screens : screens[i].motor # "solar"
    /\ screens' = handleGlobalSolar(screens)
    /\ lastOp' = [op |-> "handleGlobalSolar", index |-> 0]
    /\ UNCHANGED <<phase, installationType, addons, selectedBracketId, bracketId,
                   now, data, call, ret>>

\* state.addons[key] || 0
AddonQty(entries, key) ==
    LET hits == {i \in DOMAIN entries : entries[i].key = key}
    IN  IF hits = {} THEN 0 ELSE entries[FirstIndex(hits)].qty

\* state.addons[key] = qty: an existing key keeps its place, a new one goes last
SetAddon(entries, key, qty) ==
    IF \E i \in DOMAIN entries : entries[i].key = key
      THEN [i \in DOMAIN entries |->
              IF entries[i].key = key THEN [entries[i] EXCEPT !.qty = qty]
              ELSE entries[i]]
      ELSE Append(entries, [key |-> key, qty |-> qty])

\* delete state.addons[key]
DeleteAddon(entries, key) ==
    LET Keep(e) == e.key # key IN SelectSeq(entries, Keep)

\* the "Add" button, shown while the quantity is 0
addonAdd(entries, key) == SetAddon(entries, key, 1)

\* the "-" button
addonMinus(entries, key) ==
    IF AddonQty(entries, key) > 0
      THEN IF AddonQty(entries, key) - 1 = 0 THEN DeleteAddon(entries, key)
           ELSE SetAddon(entries, key, AddonQty(entries, key) - 1)
      ELSE entries

\* the "+" button
addonPlus(entries, key) == SetAddon(entries, key, AddonQty(entries, key) + 1)

AddonAdd ==
    /\ phase = "ready"
    /\ \E a \in DOMAIN data.addons :
         /\ AddonQty(addons, data.addons[a].id) = 0
         /\ addons' = addonAdd(addons, data.addons[a].id)
    /\ lastOp' = [op |-> "addonAdd", index |-> 0]
    /\ UNCHANGED <<phase, screens, installationType, selectedBracketId, bracketId,
                   now, data, call, ret>>

AddonMinus ==
    /\ phase = "ready"
    /\ \E a \in DOMAIN data.addons :
         /\ AddonQty(addons, data.addons[a].id) # 0
         /\ addons' = addonMinus(addons, data.addons[a].id)
    /\ lastOp' = [op |-> "addonMinus", index |-> 0]
    /\ UNCHANGED <<phase, screens, installationType, selectedBracketId, bracketId,
                   now, data, call, ret>>

AddonPlus ==
    /\ phase = "ready"
    /\ \E a \in DOMAIN data.addons :
         /\ AddonQty(addons, data.addons[a].id) # 0
         /\ AddonQty(addons, data.addons[a].id) < MaxQty
         /\ addons' = addonPlus(addons, data.addons[a].id)
    /\ lastOp' = [op |-> "addonPlus", index |-> 0]
    /\ UNCHANGED <<phase, screens, installationType, selectedBracketId, bracketId,
                   now, data, call, ret>>

\* a checkout button that is bound as soon as one screen is valid
someValid == \E i \in DOMAIN screens : screens[i].valid

\* calculateTotals, professional installation: the label looked for
targetLabel(state) ==
    IF \E i \in DOMAIN state.screens : state.screens[i].motor # "solar"
      THEN Wired ELSE Solar

\* what data.services.find returns when no title matches (undefined)
NoService == [id |-> Missing, price |-> Missing, title |-> <<>>]

\* calculateTotals: svc, the service whose price goes into installTotal
svc(state, d) ==
    LET hits == {i \in DOMAIN d.services :
                   Includes(d.services[i].title, targetLabel(state))}
    IN  IF hits # {} THEN d.services[FirstIndex(hits)] ELSE NoService

\* renderOrderSummary binds the checkout button only when every screen is valid
allValid == \A i \in DOMAIN screens : screens[i].valid

\* the payload is built and posted to the cart; handlers that could run while
\* the request is in flight are not modelled
HandleAddToCart ==
    /\ phase = "ready"
    /\ allValid
    /\ ret' = [fn |-> "generateCartPayload", value |-> generateCartPayload(State, data)]
    /\ phase' = "posting"
    /\ lastOp' = [op |-> "handleAddToCart", index |-> 0]
    /\ UNCHANGED <<screens, installationType, addons, selectedBracketId, bracketId,
                   now, data, call>>

\* .then: the browser leaves for /cart
CartAccepted ==
    /\ phase = "posting"
    /\ phase' = "left"
    /\ UNCHANGED <<screens, installationType, addons, selectedBracketId, bracketId,
                   now, data, lastOp, call, ret>>

\* .catch: the error is logged and the configurator stays as it was
CartFailed ==
    /\ phase = "posting"
    /\ phase' = "ready"
    /\ ret' = NoRet
    /\ UNCHANGED <<screens, installationType, addons, selectedBracketId, bracketId,
                   now, data, lastOp, call>>

Next ==
    \/ Tick
    \/ InitComponent
    \/ HandleAddScreen
    \/ HandleDuplicateScreen
    \/ UpdateScreen
    \/ RemoveScreen
    \/ ToggleScreenAccordion
    \/ SetInstallationType
    \/ HandleGlobalSolar
    \/ AddonAdd
    \/ AddonMinus
    \/ AddonPlus
    \/ HandleAddToCart
    \/ CartAccepted
    \/ CartFailed

Spec == Init /\ [][Next]_vars

-----------------------------------------------------------------------------
(* The screen list of product-configurator-v2.js on its own, with room for  *)
(* three screens: the handlers that add, copy, edit, remove and fold screens *)

MaxListScreens == 3

AddScreenToList ==
    /\ phase = "ready"
    /\ Len(screens) < MaxListScreens
    /\ screens' = handleAddScreen(screens, now)
    /\ lastOp' = [op |-> "handleAddScreen", index |-> 0]
    /\ UNCHANGED <<phase, installationType, addons, selectedBracketId, bracketId,
                   now, data, call, ret>>

DuplicateScreenInList ==
    /\ phase = "ready"
    /\ Len(screens) < MaxListScreens
    /\ \E index \in DOMAIN screens :
         /\ screens' = handleDuplicateScreen(screens, index, now)
         /\ lastOp' = [op |-> "handleDuplicateScreen", index |-> index]
    /\ UNCHANGED <<phase, installationType, addons, selectedBracketId, bracketId,
                   now, data, call, ret>>

\* the width and height inputs only
UpdateScreenInList ==
    /\ phase = "ready"
    /\ \E index \in DOMAIN screens :
         /\ \E in \in DimensionInputs :
                 screens' = updateScreen(screens, index, in[1], in[2])
         /\ lastOp' = [op |-> "updateScreen", index |-> index]
    /\ UNCHANGED <<phase, installationType, addons, selectedBracketId, bracketId,
                   now, data, call, ret>>

NextList ==
    \/ Tick
    \/ InitComponent
    \/ AddScreenToList
    \/ DuplicateScreenInList
    \/ UpdateScreenInList
    \/ RemoveScreen
    \/ ToggleScreenAccordion

SpecList == Init /\ [][NextList]_vars

-----------------------------------------------------------------------------
(* The engine's functions applied to inputs drawn from bounded sets *)

\* session variables that a probe of a single function leaves untouched
IdleSession ==
    /\ screens = <<>>
    /\ installationType = "diy"
    /\ addons = NoAddons
    /\ selectedBracketId = Missing
    /\ bracketId = Missing
    /\ now = 0
    /\ lastOp = NoOp
    /\ ret = NoRet

\* invalid and valid dimensions, round and non-round; on every valid pair the
\* terms of both price functions are the same in doubles and in exact
\* arithmetic
DimValues ==
    {Missing, -600, 0, 599, 600, 608, 757, 1000, 1500, 5000, 5001, 6000,
     6001}

PriceCalls ==
    [fn : {"price"}, width : DimValues, height : DimValues,
     fabricType : {Null, "blackout"}, cassetteSize : {Null, "large"},
     motor : {"wired", "solar"}, rules : RuleSets]

InitPrice ==
    /\ phase = "call"
    /\ call \in PriceCalls
    /\ data = Catalog(FullLadder, <<>>, call.rules, <<>>)
    /\ IdleSession

\* a call that leaves the variant list of the catalog in descending order, as
\* an in-place sort would
ProbeSortingVariants ==
    /\ phase = "call"
    /\ phase' = "done"
    /\ data' = [data EXCEPT
                  !.screens = [i \in DOMAIN data.screens |->
                                 data.screens[Len(data.screens) + 1 - i]]]
    /\ UNCHANGED <<screens, installationType, addons, selectedBracketId,
                   bracketId, now, lastOp, call>>

\* one call of an engine function: nothing but the result changes
Probe ==
    /\ phase = "call"
    /\ phase' = "done"
    /\ UNCHANGED <<screens, installationType, addons, selectedBracketId,
                   bracketId, now, data, lastOp, call>>

CallValidateDimensions ==
    /\ Probe
    /\ ret' = [fn |-> "validateDimensions",
               value |-> validateDimensions(call.width, call.height)]

CallCalculateScreenPrice ==
    /\ Probe
    /\ ret' = [fn |-> "calculateScreenPrice",
               value |-> calculateScreenPrice(call, data.config)]

CallCalculateScreenPriceFixed ==
    /\ Probe
    /\ ret' = [fn |-> "calculateScreenPriceFixed",
               value |-> calculateScreenPriceFixed(call, data.config)]

NextPrice ==
    \/ CallValidateDimensions
    \/ CallCalculateScreenPrice
    \/ CallCalculateScreenPriceFixed

SpecPrice == InitPrice /\ [][NextPrice]_vars

\* ---- variant resolution

MaxVariants == 3

Sku950 == <<"9", "5", "0", ",", "0", "0">>
Sku950Dot == <<"9", "5", "0", ".", "0", "0">>
Sku960 == <<"9", "6", "0", ",", "0", "0">>
Sku940 == <<"9", "4", "0", ",", "0", "0">>
Sku955Half == <<"9", "5", "5", ",", "5">>
SkuText == <<"n", "/", "a">>

\* variants a catalog can hold: SKU-priced ones, one with a SKU that is no
\* number and one without SKU
VariantPool ==
    {Variant(5001, 95000, Sku950), Variant(5002, 95000, Sku950Dot),
     Variant(5003, 96000, Sku960), Variant(5004, 94000, Sku940),
     Variant(5005, 50000, Sku955Half), Variant(5006, 55000, SkuText),
     Variant(5007, 300000, <<>>)}

\* all sequences over S of length at most n
RECURSIVE SeqsUpTo(_, _)
SeqsUpTo(S, n) ==
    IF n = 0 THEN {<<>>}
    ELSE LET shorter == SeqsUpTo(S, n - 1)
         IN  shorter \cup {Append(q, e) : q \in shorter, e \in S}

RawPrices ==
    {-100, 0, 49000, 49999, 52000, 94000, 95000, 95500, 96000, 300001, 400000}

InitMatch ==
    /\ phase = "call"
    /\ call \in [fn : {"match"}, rawPrice : RawPrices,
                 variants : SeqsUpTo(VariantPool, MaxVariants) \cup {FullLadder}]
    /\ data = Catalog(call.variants, <<>>, DefaultRules, <<>>)
    /\ IdleSession

CallMatchVariant ==
    /\ Probe
    /\ ret' = [fn |-> "matchVariant",
               value |-> matchVariant(call.rawPrice, data.screens)]

CallMatchVariantSku ==
    /\ Probe
    /\ ret' = [fn |-> "matchVariantSku",
               value |-> matchVariantSku(call.rawPrice, data.screens)]

NextMatch ==
    \/ CallMatchVariant
    \/ CallMatchVariantSku

SpecMatch == InitMatch /\ [][NextMatch]_vars

\* ---- cart payload

MaxPayloadScreens == 2

\* a screen object as the configurator holds it: a frame colour of the
\* catalog, no fabric colour yet, and the fabric type that one revision of the
\* configurator presets (src/unnamed/part_005), which the catalog lacks
ScreenOf(id, width, height, cassetteSize, motor) ==
    LET v == validateDimensions(width, height)
    IN  [id |-> id, width |-> width, height |-> height, frameColor |-> "anthracite",
         fabricColor |-> Null, fabricType |-> "4-percent", cassetteSize |-> cassetteSize,
         motor |-> motor, expanded |-> FALSE, valid |-> v.valid,
         errors |-> IF v.valid THEN NoErrors ELSE [dimension |-> v.error]]

PayloadScreenLists ==
    LET shapes == {0, 1500} \X {Null, "large"} \X {Null, "wired", "solar"}
        lists == SeqsUpTo(shapes, MaxPayloadScreens) \ {<<>>}
    IN  {[i \in DOMAIN l |-> ScreenOf(i, l[i][1], 1000, l[i][2], l[i][3])] :
           l \in lists}

Entry(key, qty) == [key |-> key, qty |-> qty]

PayloadAddons ==
    {<<>>,
     <<Entry(<<"7", "1">>, 2)>>,
     <<Entry(<<"7", "1">>, 0), Entry(<<"7", "2">>, 1),
       Entry(<<"7", "3">>, -1)>>,
     <<Entry(<<"7", "2">>, 1), Entry(<<"7", "1">>, 2)>>}

PayloadCatalogs ==
    {Catalog(v, sv, DefaultRules, <<RemoteAddon, SensorAddon>>) :
       v \in {FullLadder, SparseLadder, SkuLadder}, sv \in ServiceLists}

InitPayload ==
    /\ phase = "call"
    /\ call = [fn |-> "payload"]
    /\ screens \in PayloadScreenLists
    /\ installationType \in {"diy", "professional"}
    /\ addons \in PayloadAddons
    /\ bracketId \in {Missing, 4001}
    /\ selectedBracketId = Missing
    /\ data \in PayloadCatalogs
    /\ now = 0
    /\ lastOp = NoOp
    /\ ret = NoRet

CallGenerateCartPayload ==
    /\ Probe
    /\ ret' = [fn |-> "generateCartPayload",
               value |-> generateCartPayload(State, data)]

CallGenerateCartPayloadFixed ==
    /\ Probe
    /\ ret' = [fn |-> "generateCartPayloadFixed",
               value |-> generateCartPayloadFixed(State, data)]

NextPayload ==
    \/ CallGenerateCartPayload
    \/ CallGenerateCartPayloadFixed

SpecPayload == InitPayload /\ [][NextPayload]_vars

-----------------------------------------------------------------------------
(* The configurator revision with the bracket section (src/unnamed/part_006) *)
(* Its state modifiers are those of product-configurator-v2.js; in addition *)
(* the installation section renders one card per bracket.                   *)

\* selectedBracketId = 'unsure'
Unsure == -1

\* renderInstallationSection: "Unsure" is selected when nothing is
EnsureBracketDefault(selected, type, d) ==
    IF type = "diy" /\ Len(d.brackets) > 0 /\ Falsy(selected) THEN Unsure
    ELSE selected

\* init(): the first screen, then the first render.  Later renders find a
\* selection and leave it alone.
InitComponentBrackets ==
    /\ phase = "constructed"
    /\ phase' = "ready"
    /\ screens' = handleAddScreen(screens, now)
    /\ selectedBracketId' = EnsureBracketDefault(selectedBracketId, installationType, data)
    /\ lastOp' = [op |-> "init", index |-> 0]
    /\ UNCHANGED <<installationType, addons, bracketId, now, data, call, ret>>

\* the radio of a bracket card; the cards are rendered in diy mode only
SelectBracket ==
    /\ phase = "ready"
    /\ installationType = "diy"
    /\ \E b \in DOMAIN data.brackets :
         /\ selectedBracketId' = data.brackets[b].id
         /\ lastOp' = [op |-> "selectBracket", index |-> b]
    /\ UNCHANGED <<phase, screens, installationType, addons, bracketId, now,
                   data, call, ret>>

NextBrackets ==
    \/ Tick
    \/ InitComponentBrackets
    \/ HandleAddScreen
    \/ HandleDuplicateScreen
    \/ UpdateScreen
    \/ RemoveScreen
    \/ ToggleScreenAccordion
    \/ SetInstallationType
    \/ HandleGlobalSolar
    \/ AddonAdd
    \/ AddonMinus
    \/ AddonPlus
    \/ SelectBracket
    \/ HandleAddToCart
    \/ CartAccepted
    \/ CartFailed

SpecBrackets == Init /\ [][NextBrackets]_vars

-----------------------------------------------------------------------------
(* The first configurator (src/assets/product-configurator.js) with the     *)
(* hybrid-quantity-selector element: screens, installation and accessories  *)

DigitChar(n) ==
    CASE n = 0 -> "0" [] n = 1 -> "1" [] n = 2 -> "2" [] n = 3 -> "3"
      [] n = 4 -> "4" [] n = 5 -> "5" [] n = 6 -> "6" [] n = 7 -> "7"
      [] n = 8 -> "8" [] n = 9 -> "9"

\* `${n}` for an integer n >= 0
RECURSIVE NumberToString(_)
NumberToString(n) ==
    IF n < 10 THEN <<DigitChar(n)>>
    ELSE Append(NumberToString(n \div 10), DigitChar(n % 10))

\* the object the first configurator's handleAddScreen pushes
LegacyScreen(newId) ==
    [id |-> newId, width |-> 1500, height |-> 1000, solar |-> FALSE,
     cassette |-> "standard", frameColor |-> "Anthracite", fabricColor |-> "Grey",
     expanded |-> TRUE, valid |-> TRUE, errors |-> NoErrors]

\* newId = screens.length + 1
legacyHandleAddScreen(list) ==
    LET newId == Len(list) + 1
        pushed == Append(list, LegacyScreen(newId))
    IN  [i \in DOMAIN pushed |->
           IF pushed[i].id # newId THEN [pushed[i] EXCEPT !.expanded = FALSE]
           ELSE pushed[i]]

LegacyCatalogs ==
    {Catalog(FullLadder, <<WiredService, SolarService>>, DefaultRules,
             <<RemoteAddon, SensorAddon>>)}

\* constructor(): bracketId: null
InitLegacy ==
    /\ phase = "constructed"
    /\ data \in LegacyCatalogs
    /\ call = NoCall
    /\ IdleSession

LegacyInitComponent ==
    /\ phase = "constructed"
    /\ phase' = "ready"
    /\ screens' = legacyHandleAddScreen(screens)
    /\ lastOp' = [op |-> "init", index |-> 0]
    /\ UNCHANGED <<installationType, addons, selectedBracketId, bracketId, now,
                   data, call, ret>>

LegacyHandleAddScreen ==
    /\ phase = "ready"
    /\ Len(screens) < MaxScreens
    /\ screens' = legacyHandleAddScreen(screens)
    /\ lastOp' = [op |-> "handleAddScreen", index |-> 0]
    /\ UNCHANGED <<phase, installationType, addons, selectedBracketId, bracketId,
                   now, data, call, ret>>

\* the bracket radio: state.bracketId = parseInt(e.target.value)
LegacySelectBracket ==
    /\ phase = "ready"
    /\ installationType = "diy"
    /\ \E b \in DOMAIN data.brackets :
         /\ bracketId' = ParseInt(NumberToString(data.brackets[b].id))
         /\ lastOp' = [op |-> "selectBracket", index |-> b]
    /\ UNCHANGED <<phase, screens, installationType, addons, selectedBracketId,
                   now, data, call, ret>>

\* updateAddon(id, qty): this.state.addons[id] = qty
updateAddon(entries, id, qty) == SetAddon(entries, id, qty)

\* the input of the selector is rendered from state.addons[addon.id] || 0
SelectorInput(entries, id) == NumberToString(AddonQty(entries, id))

\* HybridQuantitySelector.activate, then the change listener of the row
selectorActivate(entries, id) == updateAddon(entries, id, ParseInt(<<"1">>))

\* HybridQuantitySelector.update(delta): reset() writes 0 into the input and
\* dispatches change like any other update, so the listener stores the 0
selectorUpdate(entries, id, delta) ==
    LET newVal == ParseInt(SelectorInput(entries, id)) + delta
    IN  IF newVal <= 0 THEN updateAddon(entries, id, ParseInt(<<"0">>))
        ELSE updateAddon(entries, id, ParseInt(NumberToString(newVal)))

\* the "Add" button, shown while the controls are hidden
SelectorActivate ==
    /\ phase = "ready"
    /\ \E a \in DOMAIN data.addons :
         /\ AddonQty(addons, data.addons[a].id) = 0
         /\ addons' = selectorActivate(addons, data.addons[a].id)
         /\ lastOp' = [op |-> "selectorActivate", index |-> a]
    /\ UNCHANGED <<phase, screens, installationType, selectedBracketId, bracketId,
                   now, data, call, ret>>

\* the "+" button, shown while the input holds a value > 0
SelectorPlus ==
    /\ phase = "ready"
    /\ \E a \in DOMAIN data.addons :
         /\ AddonQty(addons, data.addons[a].id) > 0
         /\ AddonQty(addons, data.addons[a].id) < MaxQty
         /\ addons' = selectorUpdate(addons, data.addons[a].id, 1)
         /\ lastOp' = [op |-> "selectorPlus", index |-> a]
    /\ UNCHANGED <<phase, screens, installationType, selectedBracketId, bracketId,
                   now, data, call, ret>>

\* the "-" button
SelectorMinus ==
    /\ phase = "ready"
    /\ \E a \in DOMAIN data.addons :
         /\ AddonQty(addons, data.addons[a].id) > 0
         /\ addons' = selectorUpdate(addons, data.addons[a].id, -1)
         /\ lastOp' = [op |-> "selectorMinus", index |-> a]
    /\ UNCHANGED <<phase, screens, installationType, selectedBracketId, bracketId,
                   now, data, call, ret>>

\* removeScreen(index): the splice, without a new focus
legacyRemoveScreen(list, index) ==
    IF Len(list) <= 1 THEN list ELSE RemoveAt(list, index)

LegacyRemoveScreen ==
    /\ phase = "ready"
    /\ \E index \in DOMAIN screens :
         /\ screens' = legacyRemoveScreen(screens, index)
         /\ lastOp' = [op |-> "removeScreen", index |-> index]
    /\ UNCHANGED <<phase, installationType, addons, selectedBracketId, bracketId,
                   now, data, call, ret>>

\* toggleScreenAccordion(index) is the same in both configurators
LegacyToggleScreenAccordion ==
    /\ phase = "ready"
    /\ \E index \in DOMAIN screens :
         /\ screens' = toggleScreenAccordion(screens, index)
         /\ lastOp' = [op |-> "toggleScreenAccordion", index |-> index]
    /\ UNCHANGED <<phase, installationType, addons, selectedBracketId, bracketId,
                   now, data, call, ret>>

NextLegacy ==
    \/ LegacyInitComponent
    \/ LegacyHandleAddScreen
    \/ LegacyRemoveScreen
    \/ LegacyToggleScreenAccordion
    \/ SetInstallationType
    \/ LegacySelectBracket
    \/ SelectorActivate
    \/ SelectorPlus
    \/ SelectorMinus

SpecLegacy == InitLegacy /\ [][NextLegacy]_vars

-----------------------------------------------------------------------------
(* Properties *)

IsPayload == ret.fn \in {"generateCartPayload", "generateCartPayloadFixed"}

RevOf(fn) == IF fn = "generateCartPayloadFixed" THEN "fixed" ELSE "rules"

IsScreenItem(item) == "properties" \in DOMAIN item

ScreenIdOf(item) == item.properties["_Screen ID"].v

ServiceIds == {WiredService.id, SolarService.id}
BracketIds == {4001}

\* position of an item's kind in the contracted order
Rank(item) ==
    IF IsScreenItem(item) THEN 1
    ELSE IF item.id \in ServiceIds THEN 2
    ELSE IF item.id \in BracketIds THEN 3
    ELSE 4

\* the screens of the session whose variant resolves
Resolvable(rev) ==
    {i \in DOMAIN screens :
       Resolve(rev, RawPrice(rev, screens[i], data), data) # NoVariant}

ServiceMatches(rev) ==
    \E i \in DOMAIN data.services :
        Includes(data.services[i].title, targetTitle(rev, State))

\* the number of non-screen items the session calls for
ExpectedExtras(rev) ==
    (IF installationType = "professional" /\ ServiceMatches(rev) THEN 1 ELSE 0)
    + (IF installationType = "diy" /\ bracketId # Missing THEN 1 ELSE 0)
    + Cardinality({k \in DOMAIN addons : addons[k].qty > 0})

\* C1: validateDimensions returns valid = true if and only if both dimensions
\* are present (non-zero) and minWidth <= width <= maxWidth and
\* minHeight <= height <= maxHeight, the bounds being inclusive.
C1_ValidIffWithinBounds ==
    ret.fn = "validateDimensions" =>
      (ret.value.valid <=>
         /\ call.width # 0 /\ call.width # Missing
         /\ call.height # 0 /\ call.height # Missing
         /\ minWidth <= call.width /\ call.width <= maxWidth
         /\ minHeight <= call.height /\ call.height <= maxHeight)

C1_Witness ==
    /\ ret.fn = "validateDimensions"
    /\ call.width = minWidth
    /\ call.height = maxHeight
    /\ ret.value.valid

\* C2: calculateScreenPrice returns exactly 0 for every configuration whose
\* width/height fail validateDimensions, whatever the options and rules are.
C2_InvalidCostsZero ==
    (/\ ret.fn \in {"calculateScreenPrice", "calculateScreenPriceFixed"}
     /\ ~validateDimensions(call.width, call.height).valid)
      => ret.value = 0

C2_Witness ==
    /\ ret.fn = "calculateScreenPrice"
    /\ call.width = 6001
    /\ call.height = 1500
    /\ call.cassetteSize = "large"
    /\ call.motor = "solar"
    /\ call.rules = CustomRules
    /\ ret.value = 0

\* C3: in every reachable state of the configurator every screen's valid
\* flag equals validateDimensions(width, height).valid for its current
\* width and height.
C3_ValidFlagCurrent ==
    \A i \in DOMAIN screens :
        screens[i].valid
          = validateDimensions(screens[i].width, screens[i].height).valid

C3_Witness ==
    /\ lastOp.op = "updateScreen"
    /\ \E i \in DOMAIN screens :
         /\ screens[i].width = 0
         /\ ~screens[i].valid
         /\ screens[i].errors.dimension = "Dimensions required"

\* C4: after initialisation the screens list is never empty, and removeScreen
\* on a session with exactly one screen leaves the list unchanged.
C4_AtLeastOneScreen ==
    /\ [](phase # "constructed" => Len(screens) >= 1)
    /\ [][(RemoveScreen /\ Len(screens) = 1) => screens' = screens]_vars

\* a removeScreen on a single collapsed screen: a removal that took place
\* would have left the remaining screen expanded
C4_Witness ==
    /\ lastOp.op = "removeScreen"
    /\ Len(screens) = 1
    /\ ~screens[1].expanded

\* C5: in the items of generateCartPayload every screen item precedes the
\* installation item and the bracket item, which precede every accessory
\* item, and the screen items come in the order of state.screens.
C5_ItemsOrdered ==
    IsPayload =>
      LET items == ret.value.items
      IN  \A i, j \in DOMAIN items :
            i < j =>
              /\ Rank(items[i]) <= Rank(items[j])
              /\ (IsScreenItem(items[i]) /\ IsScreenItem(items[j]))
                   => ScreenIdOf(items[i]) < ScreenIdOf(items[j])

C5_Witness ==
    /\ ret.fn = "generateCartPayload"
    /\ Len(ret.value.items) = 5
    /\ Rank(ret.value.items[1]) = 1
    /\ Rank(ret.value.items[2]) = 1
    /\ Rank(ret.value.items[3]) = 2
    /\ Rank(ret.value.items[4]) = 4
    /\ Rank(ret.value.items[5]) = 4

\* C6: the number of items equals (screens whose variant resolves)
\* + (1 if professional and a service with the target title exists)
\* + (1 if diy and a bracket is selected)
\* + (accessory entries with quantity > 0).
C6_ItemCount ==
    IsPayload =>
      Len(ret.value.items)
        = Cardinality(Resolvable(RevOf(ret.fn))) + ExpectedExtras(RevOf(ret.fn))

\* two valid screens, professional installation with the Wired service, one
\* accessory at quantity 2: four items
C6_Witness ==
    /\ ret.fn = "generateCartPayload"
    /\ Len(screens) = 2
    /\ \A i \in DOMAIN screens : screens[i].valid
    /\ installationType = "professional"
    /\ addons = <<Entry(<<"7", "1">>, 2)>>
    /\ Len(ret.value.items) = 4
    /\ ret.value.items[3] = [id |-> WiredService.id, quantity |-> 1]
    /\ ret.value.items[4] = [id |-> 71, quantity |-> 2]

\* C7: when the variant of a screen does not resolve, only that screen's item
\* is left out; every resolvable screen still has its item, carrying its own
\* 1-based session position, and the installation, bracket and accessory
\* items are still emitted.
C7_SkipOnlyUnresolved ==
    IsPayload =>
      LET rev == RevOf(ret.fn)
          items == ret.value.items
          screenItems == {k \in DOMAIN items : IsScreenItem(items[k])}
      IN  Resolvable(rev) # DOMAIN screens =>
            /\ \A i \in Resolvable(rev) :
                 Cardinality(
                   {k \in screenItems :
                      /\ items[k].properties["_Screen ID"] = JsNumber(i)
                      /\ items[k].properties["Reference"] = JsString(<<"Screen ", i>>)
                      /\ items[k].id
                           = Resolve(rev, RawPrice(rev, screens[i], data), data).id})
                   = 1
            /\ \A k \in screenItems : ScreenIdOf(items[k]) \in Resolvable(rev)
            /\ Cardinality(DOMAIN items \ screenItems) = ExpectedExtras(rev)

C7_Witness ==
    /\ ret.fn = "generateCartPayload"
    /\ Len(screens) = 2
    /\ Resolvable("rules") = {2}
    /\ installationType = "professional"
    /\ Len(ret.value.items) = 3
    /\ ScreenIdOf(ret.value.items[1]) = 2
    /\ Rank(ret.value.items[2]) = 2
    /\ Rank(ret.value.items[3]) = 4

\* C8: generateCartPayload emits no screen line item for a screen whose
\* width/height fail validateDimensions.
C8_NoItemForInvalidScreen ==
    IsPayload =>
      \A k \in DOMAIN ret.value.items :
          IsScreenItem(ret.value.items[k]) =>
            LET s == screens[ScreenIdOf(ret.value.items[k])]
            IN  validateDimensions(s.width, s.height).valid

\* C9: for professional installation the service chosen contains "Solar" if
\* and only if every screen has motor = 'solar', and "Wired" as soon as one
\* screen has another drive.
C9_ServiceFollowsMotor ==
    (IsPayload /\ installationType = "professional") =>
      LET allSolar == \A i \in DOMAIN screens : screens[i].motor = "solar"
          wanted == IF allSolar THEN Solar ELSE Wired
          items == ret.value.items
      IN  /\ \A k \in DOMAIN items :
                (~IsScreenItem(items[k]) /\ items[k].id \in ServiceIds) =>
                  \E i \in DOMAIN data.services :
                      /\ data.services[i].id = items[k].id
                      /\ Includes(data.services[i].title, wanted)
          /\ (\E i \in DOMAIN data.services : Includes(data.services[i].title, wanted))
               => \E k \in DOMAIN items :
                      ~IsScreenItem(items[k]) /\ items[k].id \in ServiceIds

\* C10: the SKU-based matchVariant returns, among the variants whose SKU
\* parses as a decimal, the first one in list order that minimises
\* abs(parsedSku - rawCost / 100).
C10_FirstNearestSku ==
    ret.fn = "matchVariantSku" =>
      LET variants == call.variants
          parseable == {i \in DOMAIN variants : SkuParses(variants[i])}
          Dist(i) == Abs(SkuValue(variants[i]) - call.rawPrice * 10)
          nearest == {i \in parseable : \A j \in parseable : Dist(i) <= Dist(j)}
      IN  parseable # {} => ret.value = variants[FirstIndex(nearest)]

\* SKUs "960,00" then "950,00", raw cost 95000: the exact one is returned
C10_Witness ==
    /\ ret.fn = "matchVariantSku"
    /\ call.rawPrice = 95000
    /\ Len(call.variants) = 2
    /\ call.variants[1].sku = Sku960
    /\ call.variants[2].sku = Sku950
    /\ ret.value = call.variants[2]

\* C11: the SKU-based matchVariant resolves every raw cost against every
\* non-empty variant list to some variant of the list, and returns the first
\* element of the list when no variant has a parseable SKU.
C11_ResolvesOnNonEmptyList ==
    (ret.fn = "matchVariantSku" /\ Len(call.variants) > 0) =>
      /\ \E i \in DOMAIN call.variants : ret.value = call.variants[i]
      /\ (\A i \in DOMAIN call.variants : ~SkuParses(call.variants[i]))
           => ret.value = call.variants[1]

\* no SKU parses ("n/a", then no SKU at all): the first element comes back
C11_Witness ==
    /\ ret.fn = "matchVariantSku"
    /\ call.rawPrice = 400000
    /\ Len(call.variants) = 2
    /\ call.variants[1].sku = SkuText
    /\ call.variants[2].sku = <<>>
    /\ ret.value = call.variants[1]

\* C11 as stated: the SKU-based matchVariant never returns null, whatever the
\* raw cost and the variant list supplied.
C11_NeverNull ==
    ret.fn = "matchVariantSku" => ret.value # NoVariant

\* C12: the stepped matchVariant returns the first variant whose price equals
\* T = min(max(ceil(rawPrice / 5000) * 5000, 50000), 300000) and null exactly
\* when no variant has price T.
C12_FirstAtSteppedTarget ==
    ret.fn = "matchVariant" =>
      LET stepped == CHOOSE m \in {k * 5000 : k \in -1..81} :
                        m >= call.rawPrice /\ m - 5000 < call.rawPrice
          atLeast == IF stepped > 50000 THEN stepped ELSE 50000
          T == IF atLeast < 300000 THEN atLeast ELSE 300000
          priced == {i \in DOMAIN call.variants : call.variants[i].price = T}
      IN  IF priced = {} THEN ret.value = NoVariant
          ELSE /\ ret.value.price = T
               /\ ret.value = call.variants[FirstIndex(priced)]

\* raw cost 94000 steps up to 95000, which two variants carry: the earlier
\* one is returned, the 94000 variant is not
C12_Witness ==
    /\ ret.fn = "matchVariant"
    /\ call.rawPrice = 94000
    /\ Len(call.variants) = 3
    /\ call.variants[1].id = 5004
    /\ call.variants[2].id = 5002
    /\ call.variants[3].id = 5001
    /\ ret.value = call.variants[2]

\* C13: with one variant at each price 50000, 55000, ..., 300000 the stepped
\* matchVariant resolves every raw cost below 50000 to the 50000 variant and
\* every raw cost above 300000 to the 300000 variant.
C13_ClampedToLadderEnds ==
    (ret.fn = "matchVariant" /\ call.variants = FullLadder) =>
      /\ call.rawPrice < 50000 => ret.value = FullLadder[1]
      /\ call.rawPrice > 300000 => ret.value = FullLadder[51]

C13_Witness ==
    /\ ret.fn = "matchVariant"
    /\ call.variants = FullLadder
    /\ call.rawPrice = -100
    /\ ret.value.price = 50000
    /\ ret.value.id = 1001

\* C14: if the shopper chose self-installation and selected a bracket in the
\* session, the payload holds exactly one bracket item, whose id is the
\* selected bracket and whose quantity is the number of screens; with
\* professional installation it holds no bracket item.
C14_BracketItemForSelection ==
    (phase = "posting" /\ ret.fn = "generateCartPayload") =>
      LET items == ret.value.items
          bracketItems == {k \in DOMAIN items :
                             ~IsScreenItem(items[k]) /\ items[k].id \in BracketIds}
      IN  /\ (installationType = "diy" /\ selectedBracketId \in BracketIds) =>
                /\ Cardinality(bracketItems) = 1
                /\ \A k \in bracketItems :
                     items[k] = [id |-> selectedBracketId,
                                 quantity |-> Len(screens)]
          /\ installationType = "professional" => bracketItems = {}

\* C15: for every entry (id, qty) of the accessory mapping the payload holds
\* exactly one item {id: numeric id, quantity: qty} when qty > 0 and none when
\* qty <= 0, and it holds no accessory item for an id absent from the mapping.
C15_AccessoryItems ==
    IsPayload =>
      LET items == ret.value.items
          accessoryItems == {k \in DOMAIN items : Rank(items[k]) = 4}
          ItemsOf(e) == {k \in accessoryItems : items[k].id = ParseInt(e.key)}
      IN  /\ \A i \in DOMAIN addons :
               IF addons[i].qty > 0
                 THEN /\ Cardinality(ItemsOf(addons[i])) = 1
                      /\ \A k \in ItemsOf(addons[i]) :
                           items[k] = [id |-> ParseInt(addons[i].key),
                                       quantity |-> addons[i].qty]
                 ELSE ItemsOf(addons[i]) = {}
          /\ \A k \in accessoryItems :
               \E i \in DOMAIN addons : items[k].id = ParseInt(addons[i].key)

\* quantities 0, 1 and -1: only the entry with quantity 1 becomes an item
C15_Witness ==
    /\ ret.fn = "generateCartPayload"
    /\ addons = <<Entry(<<"7", "1">>, 0), Entry(<<"7", "2">>, 1),
                  Entry(<<"7", "3">>, -1)>>
    /\ installationType = "diy"
    /\ bracketId = Missing
    /\ Len(screens) = 1
    /\ screens[1].valid
    /\ Len(ret.value.items) = 2
    /\ ret.value.items[2] = [id |-> 72, quantity |-> 1]

\* C16: in every state reachable by the accessory operations every quantity
\* stored in state.addons is a positive integer; a quantity reduced to zero is
\* removed from the mapping.
C16_QuantitiesPositive ==
    \A i \in DOMAIN addons : addons[i].qty > 0

\* the price of the probed configuration with one field changed, computed by
\* the function that was probed
PriceWith(field, value) ==
    IF ret.fn = "calculateScreenPriceFixed"
      THEN calculateScreenPriceFixed([call EXCEPT ![field] = value], data.config)
      ELSE calculateScreenPrice([call EXCEPT ![field] = value], data.config)

IsPrice == ret.fn \in {"calculateScreenPrice", "calculateScreenPriceFixed"}

ValidCall == validateDimensions(call.width, call.height).valid

\* by how much a dimension is enlarged
DimSteps == {1, 2, 153, 898, 4400}

\* C17: for fixed fabric, cassette and motor options calculateScreenPrice is
\* non-decreasing in width and, independently, in height over the valid range.
C17_NonDecreasing ==
    (IsPrice /\ ValidCall) =>
      \A d \in DimSteps :
        /\ validateDimensions(call.width + d, call.height).valid
             => ret.value <= PriceWith("width", call.width + d)
        /\ validateDimensions(call.width, call.height + d).valid
             => ret.value <= PriceWith("height", call.height + d)

\* 600 x 757 blackout: one millimetre more in width and two more in height
\* each raise the price
C17_Witness ==
    /\ ret.fn = "calculateScreenPriceFixed"
    /\ call.width = 600
    /\ call.height = 757
    /\ call.fabricType = "blackout"
    /\ ret.value < PriceWith("width", 601)
    /\ ret.value < PriceWith("height", 759)

\* C18: for every valid configuration, switching the motor to 'solar' with
\* everything else fixed raises calculateScreenPrice by exactly the configured
\* flat surcharge: 3500 in the fixed-rate revision, rules.surcharge_solar (any
\* configured value >= 0; 10000 when none is configured) in the rules-driven
\* revision.
C18_SolarSurchargeExact ==
    (IsPrice /\ ValidCall /\ call.motor = "wired") =>
      LET configured ==
            IF ret.fn = "calculateScreenPriceFixed" THEN 3500
            ELSE IF data.config.surcharge_solar = Missing THEN 10000
            ELSE data.config.surcharge_solar
      IN  PriceWith("motor", "solar") - ret.value = configured

\* the cassette terms of the fixed-rate revision, each rounded to whole cents
LargeCassetteTerm == (2 * (call.width * 2500 + call.height * 900) + 1000) \div 2000
DefaultCassetteTerm == (2 * (call.width * 1600 + call.height * 700) + 1000) \div 2000
DeltaCassetteTerm == (2 * (call.width * 900 + call.height * 200) + 1000) \div 2000

\* C19: for every valid width and height, switching cassetteSize from the
\* default to 'large' raises the fixed-rate calculateScreenPrice by exactly
\* round(w/1000 * 2500 + h/1000 * 900) - round(w/1000 * 1600 + h/1000 * 700),
\* which is within 1 of round(w/1000 * 900 + h/1000 * 200).
C19_LargeCassetteDelta ==
    (ret.fn = "calculateScreenPriceFixed" /\ ValidCall /\ call.cassetteSize # "large") =>
      LET delta == PriceWith("cassetteSize", "large") - ret.value
      IN  /\ delta = LargeCassetteTerm - DefaultCassetteTerm
          /\ Abs(delta - DeltaCassetteTerm) <= 1

\* 600 x 608: the terms are 2047.2 and 1385.6, the price rises by 661 while
\* the rate difference gives 661.6
C19_Witness ==
    /\ ret.fn = "calculateScreenPriceFixed"
    /\ call.width = 600
    /\ call.height = 608
    /\ call.cassetteSize # "large"
    /\ PriceWith("cassetteSize", "large") - ret.value = 661
    /\ DeltaCassetteTerm = 662

\* C19 as stated: the price rises by exactly
\* round(widthM * 900 + heightM * 200).
C19_DeltaOfRates ==
    (ret.fn = "calculateScreenPriceFixed" /\ ValidCall /\ call.cassetteSize # "large") =>
      PriceWith("cassetteSize", "large") - ret.value = DeltaCassetteTerm

C21_ZeroOnlyWhenInvalid ==
    IsPrice =>
      /\ ret.value \in Nat
      /\ ret.value = 0 <=> ~ValidCall

\* the smallest valid screen under a rules table of zeros: the default base
\* price applies
C21_Witness ==
    /\ ret.fn = "calculateScreenPrice"
    /\ call.width = minWidth
    /\ call.height = minHeight
    /\ call.cassetteSize = Null
    /\ call.motor = "wired"
    /\ call.rules = FreeAreaRules
    /\ ret.value = 50000

\* C22: every value in the properties map of every screen line item produced
\* by generateCartPayload is a string, the grouping key '_Screen ID' and the
\* entries of options not selected yet included.
C22_PropertiesAreStrings ==
    IsPayload =>
      \A k \in DOMAIN ret.value.items :
          IsScreenItem(ret.value.items[k]) =>
            \A name \in DOMAIN ret.value.items[k].properties :
                ret.value.items[k].properties[name].t = "string"

\* property name, catalog list and screen field of the five options
OptionProps ==
    {<<"Frame Color", "frameColors", "frameColor">>,
     <<"Fabric Color", "fabricColors", "fabricColor">>,
     <<"Fabric Transparency", "fabrics", "fabricType">>,
     <<"Cassette Size", "cassetteSizes", "cassetteSize">>,
     <<"Motor", "motorOptions", "motor">>}

DimensionChecks ==
    <<[fails |-> call.width \in {0, Missing} \/ call.height \in {0, Missing},
       message |-> "Dimensions required"],
      [fails |-> call.width < 600, message |-> "Min width is 600mm"],
      [fails |-> call.width > 6000, message |-> "Max width is 6000mm"],
      [fails |-> call.height < 600, message |-> "Min height is 600mm"],
      [fails |-> call.height > 5000, message |-> "Max height is 5000mm"]>>

\* C24: validateDimensions reports exactly one error, that of the first
\* failing check in the order presence, width-min, width-max, height-min,
\* height-max; error is null exactly when valid is true.
C24_FirstFailingCheck ==
    ret.fn = "validateDimensions" =>
      LET failing == {c \in DOMAIN DimensionChecks : DimensionChecks[c].fails}
      IN  /\ ret.value.error = Null <=> ret.value.valid
          /\ ret.value.valid <=> failing = {}
          /\ \A c \in failing :
                 (\A b \in failing : c <= b)
                   => ret.value.error = DimensionChecks[c].message

\* width below its minimum and height above its maximum: the width message
C24_Witness ==
    /\ ret.fn = "validateDimensions"
    /\ call.width = 599
    /\ call.height = 5001
    /\ ret.value = [valid |-> FALSE, error |-> "Min width is 600mm"]

\* what the engine function named fn returns for the arguments held in the
\* record c, the session st and the catalog d
ResultOf(fn, c, st, d) ==
    CASE fn = "calculateScreenPrice" -> calculateScreenPrice(c, d.config)
      [] fn = "calculateScreenPriceFixed" -> calculateScreenPriceFixed(c, d.config)
      [] fn = "matchVariant" -> matchVariant(c.rawPrice, d.screens)
      [] fn = "matchVariantSku" -> matchVariantSku(c.rawPrice, d.screens)
      [] fn = "generateCartPayload" -> generateCartPayload(st, d)
      [] fn = "generateCartPayloadFixed" -> generateCartPayloadFixed(st, d)
      [] fn = "validateDimensions" -> validateDimensions(c.width, c.height)

ConfigFields ==
    {"width", "height", "frameColor", "fabricColor", "fabricType", "cassetteSize",
     "motor", "valid"}

ConfigOf(screen) == [f \in ConfigFields |-> screen[f]]

C27_CheckoutOnlyWhenAllValid ==
    /\ [][(ret' # ret /\ ret'.fn = "generateCartPayload") =>
            \A i \in DOMAIN screens :
                /\ screens[i].valid
                /\ validateDimensions(screens[i].width, screens[i].height).valid]_vars
    /\ [](phase = "posting" =>
            \A i \in DOMAIN screens :
                validateDimensions(screens[i].width, screens[i].height).valid)

\* two screens, both within bounds, and their payload on its way to the cart
C27_Witness ==
    /\ phase = "posting"
    /\ lastOp.op = "handleAddToCart"
    /\ Len(screens) = 2
    /\ \A i \in DOMAIN screens : screens[i].width = 1500 /\ screens[i].height = 1000
    /\ Len(ret.value.items) = 2

\* C28: for every session state with professional installation, the
\* installation service that calculateTotals prices in the order summary is
\* the service that generateCartPayload puts in the cart.
C28_SummaryServiceIsCartService ==
    (ret.fn = "generateCartPayload" /\ installationType = "professional") =>
      LET items == ret.value.items
          services == {k \in DOMAIN items :
                         ~IsScreenItem(items[k]) /\ items[k].id \in ServiceIds}
      IN  IF svc(State, data) = NoService THEN services = {}
          ELSE /\ services # {}
               /\ \A k \in services : items[k].id = svc(State, data).id

\* C29: screen ids are unique within the session in every reachable state:
\* no two screens in state.screens have the same id.
C29_ScreenIdsUnique ==
    \A i, j \in DOMAIN screens : i # j => screens[i].id # screens[j].id

\* C30: at most one screen is expanded in every reachable state, and
\* immediately after an add or a duplicate the only expanded screen is the
\* newly created one.
C30_AtMostOneExpanded ==
    /\ Cardinality({i \in DOMAIN screens : screens[i].expanded}) <= 1
    /\ lastOp.op = "handleAddScreen"
         => {i \in DOMAIN screens : screens[i].expanded} = {Len(screens)}
    /\ lastOp.op = "handleDuplicateScreen"
         => {i \in DOMAIN screens : screens[i].expanded} = {lastOp.index + 1}

=============================================================================
